---- MODULE Spec2Model ----
(***************************************************************************)
(* Model of the SCPC ncatbot plugin (src/plugins/scpc/plugin.py): the      *)
(* Codeforces contest watcher (_listen_task, _check_cf_contests_and_notify,*)
(* _broadcast_text), the group registry commands and the two contest       *)
(* listing commands.                                                       *)
(*                                                                         *)
(* Handlers are coroutines on one cooperative event loop.  `cpu` names the *)
(* handler body that is executing; a handler gives the loop back only at   *)
(* an await that really suspends (api.send_group_msg,                      *)
(* api.get_group_member_info).  requests.get is a blocking call, so a      *)
(* fetch is not a suspension point.  While cpu # "idle" only the running   *)
(* handler takes steps.  The recurring timer of on_load ("30m") invokes    *)
(* _listen_task serially; commands arrive at any time the loop is free.    *)
(* OverlapSpec drops the serial timer, LiveSpec adds the clock and the     *)
(* scheduling fairness.                                                    *)
(***************************************************************************)
EXTENDS Integers, Sequences, FiniteSets, TLC

\* ------------------------------------------------------------------ bounds
NumGroups == 2       \* chat groups 1..NumGroups
MaxTicks == 2        \* timer ticks in one process lifetime
MaxRecords == 3      \* length of a fetched contest collection
MaxSeconds == 4      \* direct calls: times and durations lie in -MaxSeconds..MaxSeconds
MaxDays == 15        \* direct calls of the renderers: remaining times up to MaxDays days

Groups == 1..NumGroups
TickIds == 1..MaxTicks

\* --------------------------------------------------------- program constants
threshold_hours == 2                 \* _listen_task passes threshold_hours=2

\* state words and labels ('即将开始', '进行中', '据开始还剩', '距离结束')
Upcoming == "Upcoming"
Running == "Running"
UntilStart == "UntilStart"
UntilEnd == "UntilEnd"

\* ------------------------------------------------------------ JSON values
\* A JSON field of a record: an integer, absent, or a value int() rejects
\* (a non-numeric string raises ValueError, null raises TypeError).
IntV(n) == [k |-> "int", v |-> n]
Missing == [k |-> "missing", v |-> 0]
BadV == [k |-> "bad", v |-> 0]

\* dict.get(key, 0): the default replaces an absent key only
GetOr0(f) == IF f.k = "missing" THEN IntV(0) ELSE f

\* int(x) raises on a value it cannot convert
IntRaises(f) == f.k = "bad"
IntOf(f) == f.v

\* Codeforces contest objects the upstream may return
CFRecord(id, name, rel, dur) ==
    [id |-> id, name |-> name, relativeTimeSeconds |-> rel,
     durationSeconds |-> dur, startTimeSeconds |-> IntV(1750000000)]

CFRecords ==
    { CFRecord(42, "Round X", IntV(-1800), IntV(7200)),
      CFRecord(42, "Round X", IntV(-7200), IntV(7200)),
      CFRecord(7, "Round Y", IntV(-7200), IntV(7200)),
      CFRecord(7, "Round Y", IntV(-7201), IntV(7200)),
      CFRecord(7, "Round Y", IntV(100), IntV(7200)),
      CFRecord(9, "Round Z", BadV, IntV(7200)) }

ContestIds == {r.id : r \in CFRecords}

RECURSIVE SeqsUpTo(_, _)
SeqsUpTo(S, n) ==
    IF n = 0 THEN {<<>>}
    ELSE LET shorter == SeqsUpTo(S, n - 1)
         IN shorter \cup {Append(s, x) : s \in {q \in shorter : Len(q) = n - 1}, x \in S}

CFCollections == SeqsUpTo(CFRecords, MaxRecords)

\* ---------------------------------------------------------- HTTP responses
None == [kind |-> "None", status |-> "", result |-> <<>>]
Body(status, result) == [kind |-> "dict", status |-> status, result |-> result]

\* what requests.get does: raise (connection error, timeout) or return a
\* response with a status code and a body that may or may not decode
Response(raises, code, decodes, json) ==
    [raises |-> raises, status_code |-> code, decodes |-> decodes, json |-> json]

ExampleResult == <<CFRecord(42, "Round X", IntV(-1800), IntV(7200))>>

FailedResponses ==
    { Response(TRUE, 0, FALSE, None),                          \* transport error / timeout
      Response(FALSE, 500, TRUE, Body("OK", ExampleResult)),   \* non-200 status
      Response(FALSE, 200, FALSE, Body("OK", ExampleResult)),  \* JSON decode failure
      Response(FALSE, 200, TRUE, Body("FAILED", ExampleResult)) }  \* status != 'OK'

OkResponses == {Response(FALSE, 200, TRUE, Body("OK", c)) : c \in CFCollections}

\* how the response is classified by the HTTP contract, not by the code
FetchKind(resp) ==
    IF resp.raises THEN "transport"
    ELSE IF resp.status_code # 200 THEN "bad_status"
    ELSE IF ~resp.decodes THEN "decode"
    ELSE IF resp.json.status # "OK" THEN "not_ok"
    ELSE "ok"

FetchFailures == {"transport", "bad_status", "decode", "not_ok"}

\* a fetch that does not look at the status code
_fetch_json_any_status(resp) ==
    IF resp.raises THEN None
    ELSE IF ~resp.decodes THEN None
    ELSE resp.json

_fetch_json(resp) ==
    IF resp.raises THEN None
    ELSE IF resp.status_code # 200 THEN None
    ELSE IF ~resp.decodes THEN None
    ELSE resp.json

\* `if not data` / `if body`
Truthy(data) == data.kind # "None"

\* ------------------------------------------------------- utils.py renderers
\* format_timestamp: "%Y-%m-%d %H:%M" of the local time; the string is fixed
\* by the minute the timestamp falls in (seconds are not printed)
format_timestamp(ts) == [minute |-> ts \div 60]

\* f"{seconds / 3600:.1f}": hours to one decimal, kept as a number of tenths.
\* An exact tie (seconds % 360 = 180) is rounded by the binary double; the
\* contest collections of this model contain no such value.
format_hours(seconds) == [tenths |-> (seconds + 180) \div 360]

\* math.ceil replaced by a division that rounds down
CeilDiv_floor(a, b) == a \div b

\* math.ceil(a / b) for integers a and b > 0
CeilDiv(a, b) == -((-a) \div b)

format_relative_hours(seconds) ==
    IF seconds >= 24 * 7 * 3600
    THEN [n |-> CeilDiv(seconds, 24 * 7 * 3600), unit |-> "weeks"]
    ELSE IF seconds >= 24 * 3600
    THEN [n |-> CeilDiv(seconds, 24 * 3600), unit |-> "days"]
    ELSE [n |-> format_hours(seconds).tenths, unit |-> "hours"]

state_icon(state) ==
    IF state = Upcoming THEN "hourglass"
    ELSE IF state = Running THEN "green"
    ELSE IF state = "Ended" THEN "red"
    ELSE "info"

\* The text block, as the tuple of the pieces interpolated into its lines.
\* contest_id = 0 stands for contest_id=None.
format_contest_text(name, contest_id, state, start_ts, remaining_label, remaining_secs, duration_secs, include_id) ==
    [title |-> IF ~include_id \/ contest_id = 0 THEN <<name>> ELSE <<name, contest_id>>,
     icon |-> state_icon(state),
     state |-> state,
     start |-> format_timestamp(start_ts),
     label |-> remaining_label,
     remaining |-> format_relative_hours(remaining_secs),
     duration |-> format_hours(duration_secs)]

\* -------------------------------------------------------- timing extraction
Raised == [tag |-> "raise", state |-> "", remaining_label |-> "",
           remaining_secs |-> 0, duration |-> 0, start_ts |-> 0]
NoTiming == [tag |-> "none", state |-> "", remaining_label |-> "",
             remaining_secs |-> 0, duration |-> 0, start_ts |-> 0]
Timing(state, label, remaining, duration, start_ts) ==
    [tag |-> "timing", state |-> state, remaining_label |-> label,
     remaining_secs |-> remaining, duration |-> duration, start_ts |-> start_ts]

\* the signed value instead of abs()
Abs_identity(n) == n

Abs(n) == IF n < 0 THEN -n ELSE n
Max(a, b) == IF a >= b THEN a ELSE b

\* a Running test that leaves out the instant of the start
RunningRel_after_start(rel, duration) == 0 < rel /\ rel < duration

\* `if 0 <= rel < duration`
RunningRel(rel, duration) == 0 <= rel /\ rel < duration

_extract_cf_timing(contest) ==
    LET relF == GetOr0(contest.relativeTimeSeconds)
        durF == GetOr0(contest.durationSeconds)
        startF == GetOr0(contest.startTimeSeconds)
    IN IF IntRaises(relF) \/ IntRaises(durF) \/ IntRaises(startF) THEN Raised
       ELSE LET rel == IntOf(relF)
                duration == IntOf(durF)
                start_ts == IntOf(startF)
            IN IF rel < 0
               THEN Timing(Upcoming, UntilStart, Abs(rel), duration, start_ts)
               ELSE IF RunningRel(rel, duration)
               THEN Timing(Running, UntilEnd, Max(duration - rel, 0), duration, start_ts)
               ELSE NoTiming

\* further JSON values a time field can hold.  A float is kept as a number of
\* halves (FloatV(3) is 1.5); NonFinite is NaN or an infinity, which the json
\* module decodes; BoolV is true / false; OtherV is a list or an object.
FloatV(halves) == [k |-> "float", v |-> halves]
NonFinite == [k |-> "nonfinite", v |-> 0]
BoolV(b) == [k |-> "bool", v |-> IF b THEN 1 ELSE 0]
OtherV == [k |-> "other", v |-> 0]

\* a date-time string "YYYY-MM-DDTHH:MM:SS.fff<tz>": v is the printed wall
\* clock in seconds since 1970-01-01T00:00:00, ms the printed fraction, tz the
\* printed offset ("" when none is printed) and host the UTC offset of the
\* host's zone at that wall clock, which only a string with no offset uses
IsoStr(wall, ms, tz, host) == [k |-> "iso", v |-> wall, ms |-> ms, tz |-> tz, host |-> host]

\* int() of a float rounds toward minus infinity
Trunc_floor(a, b) == a \div b

\* int() of the quotient a / b, b > 0: rounds toward zero
Trunc(a, b) == IF a >= 0 THEN a \div b ELSE -((-a) \div b)

\* isinstance(value, (int, float)); bool is a subclass of int
IsNumber(value) == value.k \in {"int", "float", "bool", "nonfinite"}

\* int(value) raises ValueError for NaN and OverflowError for an infinity
IntCallRaises(value) == value.k = "nonfinite"
IntCall(value) == IF value.k = "float" THEN Trunc(value.v, 2) ELSE value.v

\* datetime.strptime(value, "%Y-%m-%dT%H:%M:%S.%f%z") needs a printed offset;
\* %z takes +HHMM, +HH:MM and Z
StrptimeAccepts(value) == value.k = "iso" /\ value.tz # ""

\* datetime.fromisoformat(value.replace("Z", "+00:00")) takes no offset or
\* +HH:MM
FromIsoAccepts(value) == value.k = "iso" /\ value.tz \in {"", "Z", "+00:00", "+01:00"}

UtcOffset(value) ==
    IF value.tz = "" THEN value.host
    ELSE IF value.tz \in {"+0100", "+01:00"} THEN 3600
    ELSE 0

\* int(dt.timestamp())
IntTimestamp(value) == Trunc((value.v - UtcOffset(value)) * 1000 + value.ms, 1000)

\* parse_scpc_time: None -> 0; a number -> int(value), and 0 when int()
\* raises; a string -> the epoch strptime or else fromisoformat reads from
\* it, and 0 when neither accepts it (BadV); anything else -> 0
parse_scpc_time(value) ==
    IF value.k = "missing" THEN 0
    ELSE IF IsNumber(value) THEN (IF IntCallRaises(value) THEN 0 ELSE IntCall(value))
    ELSE IF StrptimeAccepts(value) THEN IntTimestamp(value)
    ELSE IF FromIsoAccepts(value) THEN IntTimestamp(value)
    ELSE 0

\* SCPC contest records: startTime / endTime are absent (None), epoch numbers
\* or unparseable strings; duration is absent, a number, or a non-numeric
\* string
ScpcRecord(title, start, end, dur) ==
    [title |-> title, contestName |-> "", startTime |-> start, endTime |-> end,
     duration |-> dur]

ScpcRecords ==
    { ScpcRecord("A", IntV(1010), IntV(1100), Missing),
      ScpcRecord("B", IntV(900), IntV(1010), Missing),
      ScpcRecord("C", IntV(1050), Missing, Missing),
      ScpcRecord("D", BadV, IntV(1100), IntV(60)),
      ScpcRecord("E", IntV(1030), IntV(1100), BadV) }

ScpcCollections == SeqsUpTo(ScpcRecords, MaxRecords)
Nows == {1000, 1020}

ScpcResponses ==
    { Response(TRUE, 0, FALSE, None),
      Response(FALSE, 500, TRUE, Body("", <<ScpcRecord("A", IntV(1010), IntV(1100), Missing)>>)) }
    \cup {Response(FALSE, 200, TRUE, Body("", c)) : c \in ScpcCollections}

\* `x or y` on a JSON field: absent, None and 0 are falsy
Falsy(f) == f.k = "missing" \/ (f.k = "int" /\ f.v = 0)

ScpcRaised == [tag |-> "raise", name |-> "", state |-> "", remaining_label |-> "",
               remaining_secs |-> 0, duration |-> 0, start_ts |-> 0, sort_key |-> 0]
ScpcNoTiming == [ScpcRaised EXCEPT !.tag = "none"]

\* int() applied to the duration field with no fallback for an absent one
DurationField_no_fallback(record, start_ts, end_ts) ==
    IF record.duration.k = "missing" THEN BadV ELSE record.duration

\* the argument of int() at `duration = int(record.get('duration') or (...))`
DurationField(record, start_ts, end_ts) ==
    IF Falsy(record.duration)
    THEN IntV(IF start_ts # 0 /\ end_ts # 0 THEN Max(end_ts - start_ts, 0) ELSE 0)
    ELSE record.duration

_extract_scpc_timing(record, now) ==
    LET name == IF record.title # "" THEN record.title
                ELSE IF record.contestName # "" THEN record.contestName
                ELSE "unnamed"
        start_ts == parse_scpc_time(record.startTime)
        end_ts == parse_scpc_time(record.endTime)
        durF == DurationField(record, start_ts, end_ts)
    IN IF IntRaises(durF) THEN ScpcRaised
       ELSE LET duration == IntOf(durF) IN
            IF start_ts # 0 /\ now < start_ts
            THEN [tag |-> "timing", name |-> name, state |-> Upcoming,
                  remaining_label |-> UntilStart, remaining_secs |-> start_ts - now,
                  duration |-> duration, start_ts |-> start_ts, sort_key |-> start_ts - now]
            ELSE IF start_ts # 0 /\ end_ts # 0 /\ start_ts <= now /\ now < end_ts
            THEN [tag |-> "timing", name |-> name, state |-> Running,
                  remaining_label |-> UntilEnd, remaining_secs |-> Max(end_ts - now, 0),
                  duration |-> duration, start_ts |-> start_ts,
                  sort_key |-> Max(end_ts - now, 0)]
            ELSE ScpcNoTiming

\* ------------------------------------------------------------------ sorting
\* list.sort(key=lambda x: x[0]) is a stable sort on the first component;
\* entries are [key, text] records.
\* an insertion that puts an entry before the entries of equal key
RECURSIVE InsertByKey_before_equal(_, _)
InsertByKey_before_equal(s, x) ==
    IF s = <<>> THEN <<x>>
    ELSE IF s[Len(s)].key < x.key THEN Append(s, x)
    ELSE Append(InsertByKey_before_equal(SubSeq(s, 1, Len(s) - 1), x), s[Len(s)])

RECURSIVE InsertByKey(_, _)
InsertByKey(s, x) ==
    IF s = <<>> THEN <<x>>
    ELSE IF s[Len(s)].key <= x.key THEN Append(s, x)
    ELSE Append(InsertByKey(SubSeq(s, 1, Len(s) - 1), x), s[Len(s)])

RECURSIVE SortByKey(_)
SortByKey(s) ==
    IF s = <<>> THEN <<>>
    ELSE InsertByKey(SortByKey(SubSeq(s, 1, Len(s) - 1)), s[Len(s)])

Texts(pairs) == [i \in 1..Len(pairs) |-> pairs[i].text]

\* ------------------------------------------------------------------- state
VARIABLES
    group_listeners,   \* SCPCPlugin.group_listeners: the dict, as the sequence
                       \* of its items [gid, enabled] in insertion order
    _cf_alerted_ids,   \* SCPCPlugin._cf_alerted_ids
    cpu,               \* handler body now executing: "idle", "tick", "toggle",
                       \* "cf_list", "scpc_list"
    cur,               \* the tick that holds the cpu (0: none)
    contests,          \* running handler: the part of the collection not yet iterated
    collected,         \* running handler: upcoming_texts / collected, [key, text] entries
    lphase,            \* running command: "loop", "ended" ("-": none)
    now_ts,            \* running SCPC listing: now_ts
    cmdOutcome,        \* running command: how it ended ("none" until then)
    event,             \* running gated command: the event's group_id and user_id
    role,              \* running gated command: what the role lookup gave
                       \* ("no_lookup": none was made; "-": no gated command)
    replies,           \* running command: the replies it has issued
    nticks,            \* timer ticks fired so far
    ticks,             \* per tick: position, broadcast locals, record of its effects
    announced,         \* per contest id: occurrences in the merged messages built so far
    unsent,            \* ids of the messages of ended ticks whose sends all raised
    call,              \* a direct call of a pure function: its name and arguments;
                       \* in LiveSpec the contest the source lists (start, from)
    ret                \* the value that call returned (Pending before it ran)

vars == <<group_listeners, _cf_alerted_ids, cpu, cur, contests, collected,
          lphase, now_ts, cmdOutcome, event, role, replies, nticks, ticks,
          announced, unsent, call, ret>>

\* pc: "unused" not fired yet | "loop" in the for loop over contests |
\*     "iter" in _broadcast_text, about to advance the dict iterator |
\*     "awaiting" suspended in api.send_group_msg |
\*     "done" returning | "skipped" returning at the _judge guard |
\*     "aborted" returning after a failed fetch | "raised" ending by an
\*     uncaught exception | "finished" over, its frame is gone
\* merged, pos, size: locals of the broadcast (the text blocks joined by
\*     "\n\n", the dict iterator's index and the dict size it was created at)
\* fetch, fetches, sent, failed, marked, dup, regChanged, error: record of
\*     what the tick did (response class, number of requests issued, groups a
\*     send was issued to, sends that raised, ids it added to the set, ids it
\*     skipped as already alerted, whether the registry was modified while
\*     the broadcast was suspended, the uncaught exception)
\* None as the value of an id
NoneId == 0
Event(group_id, user_id) == [group_id |-> group_id, user_id |-> user_id]
NoEvent == Event(NoneId, NoneId)

NoCall == [fn |-> "none"]
Pending == [tag |-> "pending"]

FreshTick ==
    [pc |-> "unused", fetch |-> "none", fetches |-> 0, merged |-> <<>>,
     pos |-> 0, size |-> 0, sent |-> <<>>, failed |-> 0, marked |-> {},
     dup |-> {}, regChanged |-> FALSE, error |-> "none"]

Finished == [FreshTick EXCEPT !.pc = "finished"]

Init ==
    /\ group_listeners = <<>>
    /\ _cf_alerted_ids = {}
    /\ cpu = "idle"
    /\ cur = 0
    /\ contests = <<>>
    /\ collected = <<>>
    /\ lphase = "-"
    /\ now_ts = 0
    /\ cmdOutcome = "none"
    /\ event = NoEvent
    /\ role = "-"
    /\ replies = <<>>
    /\ nticks = 0
    /\ ticks = [t \in TickIds |-> FreshTick]
    /\ announced = [id \in ContestIds |-> 0]
    /\ unsent = {}
    /\ call = NoCall
    /\ ret = Pending

\* ---------------------------------------------------------- registry (dict)
HasKey(gl, g) == \E i \in 1..Len(gl) : gl[i].gid = g
IndexOf(gl, g) == CHOOSE i \in 1..Len(gl) : gl[i].gid = g
\* dict.get(g, False)
Enabled(gl, g) == HasKey(gl, g) /\ gl[IndexOf(gl, g)].enabled
\* an assignment that flips the flag of an existing key
SetItem_flip(gl, g, val) ==
    IF HasKey(gl, g)
    THEN [gl EXCEPT ![IndexOf(gl, g)] = [gid |-> g, enabled |-> ~gl[IndexOf(gl, g)].enabled]]
    ELSE Append(gl, [gid |-> g, enabled |-> val])

\* d[g] = val: an existing key keeps its position, a new key is appended
SetItem(gl, g, val) ==
    IF HasKey(gl, g)
    THEN [gl EXCEPT ![IndexOf(gl, g)] = [gid |-> g, enabled |-> val]]
    ELSE Append(gl, [gid |-> g, enabled |-> val])

\* a guard that only asks whether the registry has entries
_judge_nonempty(gl) == Len(gl) > 0

\* any(self.group_listeners.values())
_judge(gl) == \E i \in 1..Len(gl) : gl[i].enabled

\* ----------------------------------------- _check_cf_contests_and_notify
\* the threshold taken in minutes
threshold_seconds_minutes(hours) == hours * 60

\* int(threshold_hours * 3600)
threshold_seconds(hours) == hours * 3600

\* a filter without the state test
Qualifies_any_state(timing, threshold) ==
    /\ timing.tag = "timing"
    /\ timing.remaining_secs <= threshold

\* `if timing:` and `state == '即将开始' and remaining_secs <= threshold_seconds`
Qualifies(timing, threshold) ==
    /\ timing.tag = "timing"
    /\ timing.state = Upcoming
    /\ timing.remaining_secs <= threshold

\* no dedup test
AlreadyAlerted_never(cid, ids) == FALSE

\* the membership test sees only the ids the running tick added itself
AlreadyAlerted_own_tick(cid, ids) == cid \in ids /\ cid \in ticks[cur].marked

\* `if cid in self._cf_alerted_ids: continue`
AlreadyAlerted(cid, ids) == cid \in ids

\* the id is not recorded / the set is replaced instead of extended
MarkAlerted_forget(ids, cid) == ids
MarkAlerted_replace(ids, cid) == {cid}

\* `self._cf_alerted_ids.add(cid)`
MarkAlerted(ids, cid) == ids \cup {cid}

\* no early return on an empty list
NoSurvivors_never(pairs) == FALSE

\* `if not upcoming_texts: return`
NoSurvivors(pairs) == pairs = <<>>

\* a broadcast that ignores the flag
SendsTo_all(item) == TRUE

\* `if enabled:` in _broadcast_text
SendsTo(item) == item.enabled

\* dict iterator: "dictionary changed size during iteration"
IterRaises(gl, size) == Len(gl) # size

\* the contest id printed in a text block
IdOf(text) == text.title[2]
Occurrences(texts, id) == Cardinality({i \in 1..Len(texts) : IdOf(texts[i]) = id})

Release == /\ cpu' = "idle" /\ cur' = 0 /\ contests' = <<>> /\ collected' = <<>>

Ended == {"done", "skipped", "aborted", "raised"}

\* the running tick reaches its end with record rec; it keeps the cpu until
\* TickReturn
EndTick(t, rec) ==
    /\ ticks' = [ticks EXCEPT ![t] = rec]
    /\ cpu' = "tick"
    /\ cur' = t
    /\ contests' = <<>>
    /\ collected' = <<>>

\* The host's timer runs the task serially: it fires again only after the
\* previous run is over.
NoTickInFlight == \A t \in TickIds : ticks[t].pc \in {"unused", "finished"}

\* The timer fires: _listen_task up to the first statement of the loop over
\* the fetched contests (guard, blocking fetch, the two early returns).
StartTick(responses) ==
    /\ UNCHANGED <<call, ret, event, role, replies>>
    /\ cpu = "idle"
    /\ nticks < MaxTicks
    /\ nticks' = nticks + 1
    /\ LET t == nticks + 1 IN
       IF ~_judge(group_listeners)
       THEN EndTick(t, [FreshTick EXCEPT !.pc = "skipped"])
       ELSE \E resp \in responses :
              LET data == _fetch_json(resp) IN
              IF ~Truthy(data) \/ data.status # "OK"
              THEN EndTick(t, [FreshTick EXCEPT !.pc = "aborted",
                                                !.fetch = FetchKind(resp),
                                                !.fetches = 1])
              ELSE /\ ticks' = [ticks EXCEPT ![t].pc = "loop",
                                             ![t].fetch = FetchKind(resp),
                                             ![t].fetches = 1]
                   /\ cpu' = "tick"
                   /\ cur' = t
                   /\ contests' = data.result
                   /\ collected' = <<>>
    /\ UNCHANGED <<group_listeners, _cf_alerted_ids, lphase, now_ts, cmdOutcome,
                   announced, unsent>>

\* the timer runs the task when no earlier run of it is still in flight
_listen_task ==
    /\ NoTickInFlight
    /\ StartTick(FailedResponses \cup OkResponses)

\* One iteration of `for contest in contests`.
CheckLoop ==
    /\ UNCHANGED <<call, ret, event, role, replies>>
    /\ cpu = "tick"
    /\ ticks[cur].pc = "loop"
    /\ contests # <<>>
    /\ LET contest == Head(contests)
           cid == contest.id
           timing == _extract_cf_timing(contest)
       IN IF timing.tag = "raise"
          THEN /\ EndTick(cur, [ticks[cur] EXCEPT !.pc = "raised", !.error = "ValueError"])
               /\ UNCHANGED _cf_alerted_ids
          ELSE IF ~Qualifies(timing, threshold_seconds(threshold_hours))
          THEN /\ contests' = Tail(contests)
               /\ UNCHANGED <<ticks, cpu, cur, collected, _cf_alerted_ids>>
          ELSE IF AlreadyAlerted(cid, _cf_alerted_ids)
          THEN /\ contests' = Tail(contests)
               /\ ticks' = [ticks EXCEPT ![cur].dup = @ \cup {cid}]
               /\ UNCHANGED <<cpu, cur, collected, _cf_alerted_ids>>
          ELSE /\ contests' = Tail(contests)
               /\ _cf_alerted_ids' = MarkAlerted(_cf_alerted_ids, cid)
               /\ ticks' = [ticks EXCEPT ![cur].marked =
                                (@ \cup (_cf_alerted_ids' \ _cf_alerted_ids))
                                   \ (_cf_alerted_ids \ _cf_alerted_ids')]
               /\ collected' = Append(collected,
                    [key |-> timing.remaining_secs,
                     text |-> format_contest_text(contest.name, cid, timing.state,
                                timing.start_ts, timing.remaining_label,
                                timing.remaining_secs, timing.duration, TRUE)])
               /\ UNCHANGED <<cpu, cur>>
    /\ UNCHANGED <<group_listeners, lphase, now_ts, cmdOutcome, nticks, announced, unsent>>

\* After the loop: sort, the empty check, the join, and the creation of the
\* dict iterator of _broadcast_text.
CheckSort ==
    /\ UNCHANGED <<call, ret, event, role, replies>>
    /\ cpu = "tick"
    /\ ticks[cur].pc = "loop"
    /\ contests = <<>>
    /\ LET upcoming_texts == SortByKey(collected) IN
       IF NoSurvivors(upcoming_texts)
       THEN /\ EndTick(cur, [ticks[cur] EXCEPT !.pc = "done"])
            /\ UNCHANGED announced
       ELSE /\ ticks' = [ticks EXCEPT ![cur].pc = "iter",
                                      ![cur].merged = Texts(upcoming_texts),
                                      ![cur].pos = 0,
                                      ![cur].size = Len(group_listeners)]
            /\ announced' = [id \in ContestIds |->
                               announced[id] + Occurrences(Texts(upcoming_texts), id)]
            /\ collected' = upcoming_texts
            /\ UNCHANGED <<cpu, cur, contests>>
    /\ UNCHANGED <<group_listeners, _cf_alerted_ids, lphase, now_ts, cmdOutcome,
                   nticks, unsent>>

\* One advance of `for gid, enabled in self.group_listeners.items()`; for an
\* enabled group the send is issued and the tick suspends in _send.
BroadcastNext ==
    /\ UNCHANGED <<call, ret, event, role, replies>>
    /\ cpu = "tick"
    /\ ticks[cur].pc = "iter"
    /\ LET tk == ticks[cur] IN
       IF IterRaises(group_listeners, tk.size)
       THEN EndTick(cur, [tk EXCEPT !.pc = "raised", !.error = "RuntimeError"])
       ELSE IF tk.pos = tk.size
       THEN EndTick(cur, [tk EXCEPT !.pc = "done"])
       ELSE LET item == group_listeners[tk.pos + 1] IN
            IF SendsTo(item)
            THEN /\ ticks' = [ticks EXCEPT ![cur].pos = tk.pos + 1,
                                           ![cur].sent = Append(@, item.gid),
                                           ![cur].pc = "awaiting"]
                 /\ Release
            ELSE /\ ticks' = [ticks EXCEPT ![cur].pos = tk.pos + 1]
                 /\ collected' = <<>>
                 /\ UNCHANGED <<cpu, cur, contests>>
    /\ UNCHANGED <<group_listeners, _cf_alerted_ids, lphase, now_ts, cmdOutcome,
                   nticks, announced, unsent>>

\* The tick's coroutine is over (returned, or ended by the exception).
TickReturn ==
    /\ UNCHANGED <<call, ret, event, role, replies>>
    /\ cpu = "tick"
    /\ ticks[cur].pc \in Ended
    /\ unsent' = IF ticks[cur].sent # <<>> /\ ticks[cur].failed = Len(ticks[cur].sent)
                 THEN unsent \cup {IdOf(ticks[cur].merged[i]) : i \in 1..Len(ticks[cur].merged)}
                 ELSE unsent
    /\ ticks' = [ticks EXCEPT ![cur] = Finished]
    /\ Release
    /\ UNCHANGED <<group_listeners, _cf_alerted_ids, lphase, now_ts, cmdOutcome,
                   nticks, announced>>

\* a _send without the try/except
_send_uncaught(ok) == IF ok THEN "returned" ELSE "raised"

\* _send: `try: await self.api.send_group_msg(...)` and
\* `except Exception: _logger.warning(...)`; how the call ends
_send(ok) == IF ok THEN "returned" ELSE "returned_after_warning"

\* api.send_group_msg returns or raises, and _send ends: the broadcast loop
\* goes on, or the exception leaves _broadcast_text and the tick.
SendReturn(t, ok) ==
    /\ UNCHANGED <<call, ret, event, role, replies>>
    /\ cpu = "idle"
    /\ ticks[t].pc = "awaiting"
    /\ ticks' = [ticks EXCEPT ![t].pc = IF _send(ok) = "raised" THEN "raised" ELSE "iter",
                              ![t].error = IF _send(ok) = "raised" THEN "SendError" ELSE @,
                              ![t].failed = IF ok THEN @ ELSE @ + 1]
    /\ cpu' = "tick"
    /\ cur' = t
    /\ UNCHANGED <<group_listeners, _cf_alerted_ids, contests, collected,
                   lphase, now_ts, cmdOutcome, nticks, announced, unsent>>

\* ------------------------------------------------------- registry commands
Roles == {"owner", "admin", "member", "unknown"}
LookupResults == Roles \cup {"lookup_raises"}

\* a gate that lets the command run when the lookup raises
require_sender_admin_fail_open(ev, lookup) ==
    IF ev.group_id = NoneId \/ ev.user_id = NoneId THEN "run_unchecked"
    ELSE IF lookup = "lookup_raises" THEN "run"
    ELSE IF lookup = "owner" \/ lookup = "admin" THEN "run"
    ELSE "refused_not_admin"

\* require_sender_admin: what the wrapper does with the event and with the
\* result of api.get_group_member_info.  An event whose group_id or user_id
\* is None runs the command with no lookup.
require_sender_admin(ev, lookup) ==
    IF ev.group_id = NoneId \/ ev.user_id = NoneId THEN "run_unchecked"
    ELSE IF lookup = "lookup_raises" THEN "refused_lookup_failed"
    ELSE IF lookup = "owner" \/ lookup = "admin" THEN "run"
    ELSE "refused_not_admin"

\* the texts the gated commands reply with
ReplyOfGate(gate) ==
    IF gate = "refused_not_admin" THEN "not_admin" ELSE "lookup_failed"
ReplyOfToggle(val) ==
    IF val THEN "listener_enabled" ELSE "listener_disabled"

\* command events: a group message of an identified sender carries both ids
Sender == 1
GroupEvents == {Event(g, Sender) : g \in Groups}
AllEvents == {Event(g, u) : g \in Groups \cup {NoneId}, u \in {Sender, NoneId}}

\* a registry write while a broadcast is suspended
NoteRegistry(gl2) ==
    [t \in TickIds |->
        IF ticks[t].pc = "awaiting" /\ gl2 # group_listeners
        THEN [ticks[t] EXCEPT !.regChanged = TRUE]
        ELSE ticks[t]]

\* The handler from the return of the role lookup to the reply it issues;
\* the part before the lookup touches no plugin state.
ToggleListener(ev, lookup, val) ==
    /\ UNCHANGED <<call, ret>>
    /\ cpu = "idle"
    /\ cpu' = "toggle"
    /\ lphase' = "ended"
    /\ event' = ev
    /\ LET gate == require_sender_admin(ev, lookup) IN
       /\ role' = IF gate = "run_unchecked" THEN "no_lookup" ELSE lookup
       /\ IF gate \in {"run", "run_unchecked"}
          THEN /\ group_listeners' = SetItem(group_listeners, ev.group_id, val)
               /\ ticks' = NoteRegistry(SetItem(group_listeners, ev.group_id, val))
               /\ cmdOutcome' = "replied"
               /\ replies' = <<ReplyOfToggle(val)>>
          ELSE /\ cmdOutcome' = gate
               /\ replies' = <<ReplyOfGate(gate)>>
               /\ UNCHANGED <<group_listeners, ticks>>
    /\ UNCHANGED <<_cf_alerted_ids, cur, contests, collected, now_ts, nticks,
                   announced, unsent>>

add_contest_listener(ev, lookup) == ToggleListener(ev, lookup, TRUE)
remove_contest_listener(ev, lookup) == ToggleListener(ev, lookup, FALSE)

\* A command handler is over: its reply was issued or it raised.
CommandReturn ==
    /\ UNCHANGED <<call, ret>>
    /\ cpu \in {"toggle", "cf_list", "scpc_list", "rating"}
    /\ lphase = "ended"
    /\ Release
    /\ lphase' = "-"
    /\ now_ts' = 0
    /\ cmdOutcome' = "none"
    /\ event' = NoEvent
    /\ role' = "-"
    /\ replies' = <<>>
    /\ UNCHANGED <<group_listeners, _cf_alerted_ids, nticks, ticks, announced, unsent>>

\* --------------------------------------------------------- listing commands
EndCommand(outcome) ==
    /\ lphase' = "ended"
    /\ cmdOutcome' = outcome
    /\ replies' = IF outcome = "raised" THEN <<>> ELSE <<outcome>>
    /\ contests' = <<>>

\* get_codeforces_contests -> _get_codeforces_contests: the fetch and the
\* check of the body
CFListStart ==
    /\ UNCHANGED <<call, ret, event, role>>
    /\ cpu = "idle"
    /\ cpu' = "cf_list"
    /\ \E resp \in FailedResponses \cup OkResponses :
         LET body == _fetch_json(resp) IN
         IF Truthy(body) /\ body.status = "OK"
         THEN /\ contests' = body.result
              /\ lphase' = "loop"
              /\ UNCHANGED <<cmdOutcome, replies>>
         ELSE EndCommand("retry_later")
    /\ collected' = <<>>
    /\ UNCHANGED <<group_listeners, _cf_alerted_ids, cur, now_ts, nticks, ticks,
                   announced, unsent>>

\* the listing keeps every contest the classifier returns a timing for
\* (`if not timing: continue`); this one also drops the ids already alerted
Listed_not_alerted(contest, timing) ==
    timing.tag = "timing" /\ contest.id \notin _cf_alerted_ids

\* `if not timing: continue`
Listed(contest, timing) == timing.tag = "timing"

\* one iteration of `for contest in data`
CFListLoop ==
    /\ UNCHANGED <<call, ret, event, role>>
    /\ cpu = "cf_list"
    /\ lphase = "loop"
    /\ contests # <<>>
    /\ LET contest == Head(contests)
           timing == _extract_cf_timing(contest)
       IN IF timing.tag = "raise"
          THEN /\ EndCommand("raised")
               /\ collected' = <<>>
          ELSE IF ~Listed(contest, timing)
          THEN /\ contests' = Tail(contests)
               /\ UNCHANGED <<collected, lphase, cmdOutcome, replies>>
          ELSE /\ contests' = Tail(contests)
               /\ collected' = Append(collected,
                    [key |-> timing.remaining_secs,
                     text |-> format_contest_text(contest.name, contest.id, timing.state,
                                timing.start_ts, timing.remaining_label,
                                timing.remaining_secs, timing.duration, TRUE)])
               /\ UNCHANGED <<lphase, cmdOutcome, replies>>
    /\ UNCHANGED <<group_listeners, _cf_alerted_ids, cpu, cur, now_ts, nticks, ticks,
                   announced, unsent>>

\* get_scpc_contests: the fetch, `if not body`, the records and now_ts
ScpcListStart ==
    /\ UNCHANGED <<call, ret, event, role>>
    /\ cpu = "idle"
    /\ cpu' = "scpc_list"
    /\ \E resp \in ScpcResponses, now \in Nows :
         LET body == _fetch_json(resp) IN
         IF ~Truthy(body)
         THEN /\ EndCommand("retry_later")
              /\ UNCHANGED now_ts
         ELSE /\ contests' = body.result
              /\ now_ts' = now
              /\ lphase' = "loop"
              /\ UNCHANGED <<cmdOutcome, replies>>
    /\ collected' = <<>>
    /\ UNCHANGED <<group_listeners, _cf_alerted_ids, cur, nticks, ticks, announced, unsent>>

\* one iteration of `for record in records`
ScpcListLoop ==
    /\ UNCHANGED <<call, ret, event, role>>
    /\ cpu = "scpc_list"
    /\ lphase = "loop"
    /\ contests # <<>>
    /\ LET record == Head(contests)
           timing == _extract_scpc_timing(record, now_ts)
       IN IF timing.tag = "raise"
          THEN /\ EndCommand("raised")
               /\ collected' = <<>>
          ELSE IF timing.tag = "none"
          THEN /\ contests' = Tail(contests)
               /\ UNCHANGED <<collected, lphase, cmdOutcome, replies>>
          ELSE /\ contests' = Tail(contests)
               /\ collected' = Append(collected,
                    [key |-> timing.sort_key,
                     text |-> format_contest_text(timing.name, 0, timing.state,
                                timing.start_ts, timing.remaining_label,
                                timing.remaining_secs, timing.duration, FALSE)])
               /\ UNCHANGED <<lphase, cmdOutcome, replies>>
    /\ UNCHANGED <<group_listeners, _cf_alerted_ids, cpu, cur, now_ts, nticks, ticks,
                   announced, unsent>>

\* user.rating results: no record, a record with newRating, one without
RatingRecord(newRating) == [newRating |-> newRating]
RatingResults ==
    {<<>>, <<RatingRecord(IntV(1500))>>, <<RatingRecord(IntV(1400)), RatingRecord(Missing)>>}
RatingResponses ==
    FailedResponses \cup {Response(FALSE, 200, TRUE, Body("OK", r)) : r \in RatingResults}

\* get_codeforces_user_rating: the fetch, the check of the body, and the
\* reply; last_contest['newRating'] raises KeyError on a record without it
get_codeforces_user_rating ==
    /\ UNCHANGED <<call, ret, event, role>>
    /\ cpu = "idle"
    /\ cpu' = "rating"
    /\ \E resp \in RatingResponses :
         LET body == _fetch_json(resp) IN
         IF Truthy(body) /\ body.status = "OK"
         THEN LET data == body.result IN
              IF data = <<>> THEN EndCommand("no_records")
              ELSE IF data[Len(data)].newRating.k = "missing" THEN EndCommand("raised")
              ELSE EndCommand("rating")
         ELSE EndCommand("retry_later")
    /\ UNCHANGED <<group_listeners, _cf_alerted_ids, cur, collected, now_ts, nticks,
                   ticks, announced, unsent>>

\* after either loop: collected.sort, and the reply (the joined texts, or
\* the "nothing upcoming" text)
ListReply ==
    /\ UNCHANGED <<call, ret, event, role>>
    /\ cpu \in {"cf_list", "scpc_list"}
    /\ lphase = "loop"
    /\ contests = <<>>
    /\ collected' = SortByKey(collected)
    /\ lphase' = "ended"
    /\ cmdOutcome' = IF Texts(SortByKey(collected)) # <<>> THEN "formatted"
                     ELSE "nothing_upcoming"
    /\ replies' = <<cmdOutcome'>>
    /\ UNCHANGED <<group_listeners, _cf_alerted_ids, cpu, cur, contests, now_ts,
                   nticks, ticks, announced, unsent>>

\* ----------------------------------------------------------- specifications
\* Spec: the watcher and the registry commands, the commands arriving as
\* group messages of identified senders.
Next ==
    \/ _listen_task
    \/ CheckLoop
    \/ CheckSort
    \/ BroadcastNext
    \/ TickReturn
    \/ \E t \in TickIds, ok \in BOOLEAN : SendReturn(t, ok)
    \/ \E ev \in GroupEvents, lookup \in LookupResults : add_contest_listener(ev, lookup)
    \/ \E ev \in GroupEvents, lookup \in LookupResults : remove_contest_listener(ev, lookup)
    \/ CommandReturn

Spec == Init /\ [][Next]_vars

\* ListSpec: the watcher, the listing commands and the rating lookup, from the state an admin's
\* add_contest_listener in group 1 leaves.  The listing commands read and
\* write no state of the watcher or the registry, so the registry commands
\* are left to Spec.
ListInit ==
    /\ group_listeners = <<[gid |-> 1, enabled |-> TRUE]>>
    /\ _cf_alerted_ids = {}
    /\ cpu = "idle"
    /\ cur = 0
    /\ contests = <<>>
    /\ collected = <<>>
    /\ lphase = "-"
    /\ now_ts = 0
    /\ cmdOutcome = "none"
    /\ event = NoEvent
    /\ role = "-"
    /\ replies = <<>>
    /\ nticks = 0
    /\ ticks = [t \in TickIds |-> FreshTick]
    /\ announced = [id \in ContestIds |-> 0]
    /\ unsent = {}
    /\ call = NoCall
    /\ ret = Pending

ListNext ==
    \/ CFListStart
    \/ CFListLoop
    \/ ScpcListStart
    \/ ScpcListLoop
    \/ ListReply
    \/ get_codeforces_user_rating
    \/ CommandReturn
    \/ _listen_task
    \/ CheckLoop
    \/ CheckSort
    \/ BroadcastNext
    \/ TickReturn
    \/ \E t \in TickIds, ok \in BOOLEAN : SendReturn(t, ok)

ListSpec == ListInit /\ [][ListNext]_vars

\* GateSpec: the registry commands alone, for events of every shape (a
\* group_id or user_id that is None included), once the timer has stopped:
\* from the state in which an admin has enabled group 1, the first tick has
\* announced contest 42 and every later tick found nothing new.
GateInit ==
    /\ group_listeners = <<[gid |-> 1, enabled |-> TRUE]>>
    /\ _cf_alerted_ids = {42}
    /\ cpu = "idle"
    /\ cur = 0
    /\ contests = <<>>
    /\ collected = <<>>
    /\ lphase = "-"
    /\ now_ts = 0
    /\ cmdOutcome = "none"
    /\ event = NoEvent
    /\ role = "-"
    /\ replies = <<>>
    /\ nticks = MaxTicks
    /\ ticks = [t \in TickIds |-> Finished]
    /\ announced = [id \in ContestIds |-> IF id = 42 THEN 1 ELSE 0]
    /\ unsent = {}
    /\ call = NoCall
    /\ ret = Pending

GateNext ==
    \/ \E ev \in AllEvents, lookup \in LookupResults : add_contest_listener(ev, lookup)
    \/ \E ev \in AllEvents, lookup \in LookupResults : remove_contest_listener(ev, lookup)
    \/ CommandReturn

GateSpec == GateInit /\ [][GateNext]_vars

\* LateSpec: the watcher and the registry commands after a first tick has
\* alerted contest 42 to group 1, the only group with an entry; every other
\* group is enabled after id 42 was added to the set.
LateInit ==
    /\ group_listeners = <<[gid |-> 1, enabled |-> TRUE]>>
    /\ _cf_alerted_ids = {42}
    /\ cpu = "idle"
    /\ cur = 0
    /\ contests = <<>>
    /\ collected = <<>>
    /\ lphase = "-"
    /\ now_ts = 0
    /\ cmdOutcome = "none"
    /\ event = NoEvent
    /\ role = "-"
    /\ replies = <<>>
    /\ nticks = 1
    /\ ticks = [t \in TickIds |-> IF t = 1 THEN Finished ELSE FreshTick]
    /\ announced = [id \in ContestIds |-> IF id = 42 THEN 1 ELSE 0]
    /\ unsent = {}
    /\ call = NoCall
    /\ ret = Pending

LateSpec == LateInit /\ [][Next]_vars

\* the sender of an interleaved command: one role the gate lets through and
\* one it refuses
OverlapLookups == {"owner", "member"}

\* LiveSpec: the watcher on its timer, with the clock.  Tick number n runs at
\* time TimerInterval * n.  The source lists contest 42 from the time `from`
\* on, with relativeTimeSeconds = time - start; `from` is at least one timer
\* interval before `start`, and a tick falls between the two.  Every fetch
\* succeeds, group 1 stays enabled, and commands of the other groups arrive
\* in between.
TimerInterval == 1800                   \* add_scheduled_task(..., "30m")
TickTime(n) == TimerInterval * n

LiveStarts == {TimerInterval * k + off : k \in 1..MaxTicks, off \in {1, 900, TimerInterval}}
LiveSources ==
    UNION {{[fn |-> "source", start |-> s, from |-> a] : a \in {0, s - TimerInterval}} :
              s \in LiveStarts}

\* the contest list the source returns at `time`: a running contest, and
\* contest 42 once it is listed
SourceAt(src, time) ==
    <<CFRecord(7, "Round Y", IntV(100), IntV(7200))>>
        \o (IF time >= src.from
            THEN <<CFRecord(42, "Round X", IntV(time - src.start), IntV(7200))>>
            ELSE <<>>)

LiveInit ==
    /\ group_listeners = <<[gid |-> 1, enabled |-> TRUE]>>
    /\ _cf_alerted_ids = {}
    /\ cpu = "idle"
    /\ cur = 0
    /\ contests = <<>>
    /\ collected = <<>>
    /\ lphase = "-"
    /\ now_ts = 0
    /\ cmdOutcome = "none"
    /\ event = NoEvent
    /\ role = "-"
    /\ replies = <<>>
    /\ nticks = 0
    /\ ticks = [t \in TickIds |-> FreshTick]
    /\ announced = [id \in ContestIds |-> 0]
    /\ unsent = {}
    /\ call \in LiveSources
    /\ ret = Pending

LiveTick ==
    /\ NoTickInFlight
    /\ StartTick({Response(FALSE, 200, TRUE,
                           Body("OK", SourceAt(call, TickTime(nticks + 1))))})

LiveEvents == {Event(g, Sender) : g \in Groups \ {1}}

LiveSendReturn == \E t \in TickIds, ok \in BOOLEAN : SendReturn(t, ok)

LiveNext ==
    \/ LiveTick
    \/ CheckLoop
    \/ CheckSort
    \/ BroadcastNext
    \/ TickReturn
    \/ LiveSendReturn
    \/ \E ev \in LiveEvents, lookup \in OverlapLookups : add_contest_listener(ev, lookup)
    \/ \E ev \in LiveEvents, lookup \in OverlapLookups : remove_contest_listener(ev, lookup)
    \/ CommandReturn

\* The event loop runs ready callbacks in FIFO order, so the timer's callback
\* and the resumption of a finished send are run however many commands
\* arrive (strong fairness: they are enabled whenever the loop is idle); a
\* running handler body continues to its next suspension point.
LiveSpec ==
    /\ LiveInit
    /\ [][LiveNext]_vars
    /\ SF_vars(LiveTick)
    /\ SF_vars(LiveSendReturn)
    /\ WF_vars(CheckLoop)
    /\ WF_vars(CheckSort)
    /\ WF_vars(BroadcastNext)
    /\ WF_vars(TickReturn)
    /\ WF_vars(CommandReturn)

\* OverlapSpec: the watcher started by a timer that does not wait for the
\* previous run: a tick can start while earlier ticks are suspended in a
\* send, and registry commands arrive in between.  Group 1 is enabled from
\* the start.
OverlapInit ==
    /\ group_listeners = <<[gid |-> 1, enabled |-> TRUE]>>
    /\ _cf_alerted_ids = {}
    /\ cpu = "idle"
    /\ cur = 0
    /\ contests = <<>>
    /\ collected = <<>>
    /\ lphase = "-"
    /\ now_ts = 0
    /\ cmdOutcome = "none"
    /\ event = NoEvent
    /\ role = "-"
    /\ replies = <<>>
    /\ nticks = 0
    /\ ticks = [t \in TickIds |-> FreshTick]
    /\ announced = [id \in ContestIds |-> 0]
    /\ unsent = {}
    /\ call = NoCall
    /\ ret = Pending

\* what the contest list returns to overlapping ticks: up to two of the
\* well-formed upcoming records, or a failure
OverlapResponses ==
    {Response(TRUE, 0, FALSE, None)}
        \cup {Response(FALSE, 200, TRUE, Body("OK", c)) :
                 c \in SeqsUpTo({CFRecord(42, "Round X", IntV(-1800), IntV(7200)),
                                 CFRecord(7, "Round Y", IntV(-7200), IntV(7200))}, 2)}

OverlapNext ==
    \/ StartTick(OverlapResponses)
    \/ CheckLoop
    \/ CheckSort
    \/ BroadcastNext
    \/ TickReturn
    \/ \E t \in TickIds, ok \in BOOLEAN : SendReturn(t, ok)
    \/ \E ev \in GroupEvents, lookup \in OverlapLookups : add_contest_listener(ev, lookup)
    \/ \E ev \in GroupEvents, lookup \in OverlapLookups : remove_contest_listener(ev, lookup)
    \/ CommandReturn

OverlapSpec == OverlapInit /\ [][OverlapNext]_vars

\* ------------------------------------------------- the classifiers, called
\* ClassifySpec: one direct call of a timing extractor on a record drawn
\* from a bounded set; the plugin's state stays as constructed.
Seconds == -MaxSeconds..MaxSeconds
Epochs == 0..MaxSeconds

\* a startTime / endTime / duration field: absent, a string that is no
\* number and no date, or a number
ScpcFields == {Missing, BadV} \cup {IntV(n) : n \in Epochs}

CfCalls ==
    {[fn |-> "_extract_cf_timing",
      contest |-> CFRecord(1, "R", IntV(rel), IntV(dur))] : rel \in Seconds, dur \in Seconds}

ScpcCalls ==
    {[fn |-> "_extract_scpc_timing",
      record |-> ScpcRecord("S", st, en, du),
      now |-> now] : st \in ScpcFields, en \in ScpcFields,
                     du \in ScpcFields \cup {IntV(-1)}, now \in Epochs}

\* one contest given in both forms: start_epoch > 0, duration >= 0, now; the
\* SCPC record carries endTime = start + duration, and the duration field
\* either explicitly or not at all
BothCalls ==
    {[fn |-> "both_forms", start |-> st, duration |-> du, now |-> now, explicit |-> ex] :
        st \in 1..MaxSeconds, du \in 0..MaxSeconds, now \in 0..(2 * MaxSeconds + 1),
        ex \in BOOLEAN}

\* remaining times passed to format_relative_hours: around every whole day
\* up to MaxDays, one hour and 23 hours into each day, and the values 25 h
\* and 700000 s
RelativeSeconds ==
    {d * 24 * 3600 + e : d \in 0..MaxDays, e \in {-1, 0, 1, 3600, 23 * 3600}}
        \cup {90000, 700000}

RelativeCalls == {[fn |-> "format_relative_hours", seconds |-> s] : s \in RelativeSeconds}

\* arguments of parse_scpc_time: every kind of JSON value
TimeZones == {"+0000", "Z", "+0100", "+01:00", ""}
ParseValues ==
    {Missing, BadV, OtherV, NonFinite, BoolV(TRUE), BoolV(FALSE)}
        \cup {IntV(n) : n \in Seconds}
        \cup {FloatV(h) : h \in (-2 * MaxSeconds - 1)..(2 * MaxSeconds + 1)}
        \cup {IsoStr(w, ms, tz, host) : w \in {-1, 0, 1, 3600, 7200}, ms \in {0, 500},
                                         tz \in TimeZones, host \in {0, 8 * 3600}}

ParseCalls == {[fn |-> "parse_scpc_time", value |-> v] : v \in ParseValues}

AbsoluteForm(c) ==
    ScpcRecord("S", IntV(c.start), IntV(c.start + c.duration),
               IF c.explicit THEN IntV(c.duration) ELSE Missing)

RelativeForm(c) ==
    [id |-> 1, name |-> "S", relativeTimeSeconds |-> IntV(c.now - c.start),
     durationSeconds |-> IntV(c.duration), startTimeSeconds |-> IntV(c.start)]

ClassifyInit ==
    /\ group_listeners = <<>>
    /\ _cf_alerted_ids = {}
    /\ cpu = "idle"
    /\ cur = 0
    /\ contests = <<>>
    /\ collected = <<>>
    /\ lphase = "-"
    /\ now_ts = 0
    /\ cmdOutcome = "none"
    /\ event = NoEvent
    /\ role = "-"
    /\ replies = <<>>
    /\ nticks = 0
    /\ ticks = [t \in TickIds |-> FreshTick]
    /\ announced = [id \in ContestIds |-> 0]
    /\ unsent = {}
    /\ call \in CfCalls \cup ScpcCalls \cup BothCalls \cup RelativeCalls \cup ParseCalls
    /\ ret = Pending

Plugin == <<group_listeners, _cf_alerted_ids, cpu, cur, contests, collected,
            lphase, now_ts, cmdOutcome, event, role, replies, nticks, ticks,
            announced, unsent>>

CallExtractCf ==
    /\ call.fn = "_extract_cf_timing"
    /\ ret = Pending
    /\ ret' = _extract_cf_timing(call.contest)
    /\ UNCHANGED <<Plugin, call>>

CallExtractScpc ==
    /\ call.fn = "_extract_scpc_timing"
    /\ ret = Pending
    /\ ret' = _extract_scpc_timing(call.record, call.now)
    /\ UNCHANGED <<Plugin, call>>

CallBothForms ==
    /\ call.fn = "both_forms"
    /\ ret = Pending
    /\ ret' = [tag |-> "both",
               abs |-> _extract_scpc_timing(AbsoluteForm(call), call.now),
               rel |-> _extract_cf_timing(RelativeForm(call))]
    /\ UNCHANGED <<Plugin, call>>

CallFormatRelativeHours ==
    /\ call.fn = "format_relative_hours"
    /\ ret = Pending
    /\ ret' = [tag |-> "label", label |-> format_relative_hours(call.seconds)]
    /\ UNCHANGED <<Plugin, call>>

CallParseScpcTime ==
    /\ call.fn = "parse_scpc_time"
    /\ ret = Pending
    /\ ret' = [tag |-> "parsed", value |-> parse_scpc_time(call.value)]
    /\ UNCHANGED <<Plugin, call>>

ClassifyNext ==
    \/ CallExtractCf
    \/ CallExtractScpc
    \/ CallBothForms
    \/ CallFormatRelativeHours
    \/ CallParseScpcTime

ClassifySpec == ClassifyInit /\ [][ClassifyNext]_vars

\* ------------------------------------------------------------------ claims
MsgIds(t) == {IdOf(ticks[t].merged[i]) : i \in 1..Len(ticks[t].merged)}
Count(seq, x) == Cardinality({i \in 1..Len(seq) : seq[i] = x})
AnyEnabled == \E g \in Groups : Enabled(group_listeners, g)
InLoopStep == cpu = "tick" /\ ticks[cur].pc = "loop" /\ contests # <<>>

\* C1: over all ticks of the process, every contest id occurs at most once
\* in all the merged messages built for broadcast (at most one message, and
\* once inside it), also when the id is Upcoming within the threshold again
\* on a later tick.
C1_AtMostOnce == \A id \in ContestIds : announced[id] <= 1

\* a second tick met an id that an earlier message announced, skipped it,
\* and ended with nothing to send
C1_Witness ==
    \E t \in TickIds :
        /\ nticks = 2
        /\ ticks[t].pc = "done"
        /\ ticks[t].merged = <<>>
        /\ 42 \in ticks[t].dup
        /\ announced[42] = 1

\* C2: the ids of a tick's message are in _cf_alerted_ids from before its
\* first send on; the ids of a message whose sends all failed stay in the
\* set and are in no later tick's list or message.
C2_MarkBeforeSend ==
    /\ \A t \in TickIds : ticks[t].merged # <<>> => MsgIds(t) \subseteq _cf_alerted_ids
    /\ unsent \subseteq _cf_alerted_ids
    /\ \A t \in TickIds : MsgIds(t) \cap unsent = {}
    /\ cpu = "tick" => \A i \in 1..Len(collected) : IdOf(collected[i].text) \notin unsent

\* a tick after one whose sends all failed met an id of that message and
\* skipped it
C2_Witness ==
    \E t \in TickIds : ticks[t].pc \in Ended /\ ticks[t].dup \cap unsent # {}

\* C3: a tick that starts while no group is enabled is skipped: it issues no
\* request, sends nothing and leaves _cf_alerted_ids as it is, and does
\* nothing further before it returns.
C3_Guard ==
    [][ /\ (nticks' = nticks + 1 /\ ~AnyEnabled)
            => /\ ticks'[nticks'].pc = "skipped"
               /\ ticks'[nticks'].fetches = 0
               /\ ticks'[nticks'].sent = <<>>
               /\ _cf_alerted_ids' = _cf_alerted_ids
               /\ announced' = announced
        /\ \A t \in TickIds : ticks[t].pc = "skipped"
            => /\ ticks'[t] = Finished
               /\ _cf_alerted_ids' = _cf_alerted_ids
               /\ announced' = announced ]_vars

\* a tick was skipped although the registry has entries (all of them false)
C3_Witness ==
    \E t \in TickIds : ticks[t].pc = "skipped" /\ group_listeners # <<>> /\ ~AnyEnabled

\* C4: an id enters _cf_alerted_ids, and a block enters the tick's list, only
\* in the loop step of a record with an integer relativeTimeSeconds < 0
\* (Upcoming) and -relativeTimeSeconds <= 7200; every block of a tick's list
\* and message is an Upcoming block with key <= 7200.
UpcomingWithin2h(c) ==
    /\ c.relativeTimeSeconds.k = "int"
    /\ c.relativeTimeSeconds.v < 0
    /\ -c.relativeTimeSeconds.v <= 7200

C6_FetchFailure ==
    \A t \in TickIds :
        ticks[t].fetch \in FetchFailures =>
            /\ ticks[t].pc = "aborted"
            /\ ticks[t].fetches = 1
            /\ ticks[t].sent = <<>>
            /\ ticks[t].merged = <<>>
            /\ ticks[t].marked = {}
            /\ ticks[t].error = "none"
            /\ cpu = "tick" /\ cur = t /\ collected = <<>> /\ contests = <<>>

\* a tick was aborted by a non-200 response while the set held ids of an
\* earlier tick
C6_Witness ==
    \E t \in TickIds :
        ticks[t].pc = "aborted" /\ ticks[t].fetch = "bad_status" /\ _cf_alerted_ids # {}

\* C7: a record whose numeric fields are malformed is dropped and the loop
\* goes on with the next record: the handler (tick, Codeforces listing, SCPC
\* listing) stays in its loop, and its list and the set are as before.
MalformedCF(c) ==
    \/ c.relativeTimeSeconds.k = "bad"
    \/ c.durationSeconds.k = "bad"
    \/ c.startTimeSeconds.k = "bad"
MalformedScpc(r) == r.duration.k = "bad"

C7_FaultIsolation ==
    [][ /\ (InLoopStep /\ MalformedCF(Head(contests)))
            => /\ ticks'[cur].pc = "loop"
               /\ contests' = Tail(contests)
               /\ collected' = collected
               /\ _cf_alerted_ids' = _cf_alerted_ids
        /\ (cpu \in {"cf_list", "scpc_list"} /\ lphase = "loop" /\ contests # <<>>
              /\ (IF cpu = "cf_list" THEN MalformedCF(Head(contests))
                  ELSE MalformedScpc(Head(contests))))
            => /\ lphase' = "loop"
               /\ contests' = Tail(contests)
               /\ collected' = collected ]_vars

\* C8: no step removes an id from _cf_alerted_ids.
C8_OnlyGrows == [][_cf_alerted_ids \subseteq _cf_alerted_ids']_vars

\* a later tick has ended and an id that an earlier tick added is in the set
C8_Witness ==
    \E t \in TickIds :
        /\ nticks >= 2
        /\ ticks[t].pc \in Ended
        /\ ticks[t].marked # {}
        /\ \E id \in _cf_alerted_ids : id \notin ticks[t].marked

\* C9: a tick whose fetch succeeded and that has no survivor returns without
\* a message: it issued no send and added no id.
C9_SilentNoOp ==
    \A t \in TickIds :
        (ticks[t].fetch = "ok" /\ ticks[t].pc = "done" /\ ticks[t].merged = <<>>) =>
            /\ ticks[t].sent = <<>>
            /\ ticks[t].marked = {}

\* a tick returned silently after a fetch that brought only a contest
\* outside the filters
C9_Witness ==
    \E t \in TickIds :
        /\ ticks[t].fetch = "ok"
        /\ ticks[t].pc = "done"
        /\ ticks[t].merged = <<>>
        /\ ticks[t].dup = {}
        /\ nticks = 1

\* C10: the blocks of every merged output (tick message, Codeforces listing,
\* SCPC listing) are the collected blocks in ascending order of their
\* remaining seconds, blocks of equal remaining seconds in collection order.
IsStableSort(out, in) ==
    /\ Len(out) = Len(in)
    /\ \A i, j \in 1..Len(out) : i < j => out[i].key <= out[j].key
    /\ \A k \in {in[i].key : i \in 1..Len(in)} \cup {out[i].key : i \in 1..Len(out)} :
          LET HasKeyK(e) == e.key = k
          IN SelectSeq(out, HasKeyK) = SelectSeq(in, HasKeyK)

KeyIsRemaining(pairs) ==
    \A i \in 1..Len(pairs) : pairs[i].text.remaining = format_relative_hours(pairs[i].key)

C10_UrgencyOrder ==
    [][ /\ (cpu = "tick" /\ ticks[cur].pc = "loop" /\ ticks'[cur].pc = "iter")
            => /\ IsStableSort(collected', collected)
               /\ KeyIsRemaining(collected')
               /\ ticks'[cur].merged = Texts(collected')
        /\ (cpu \in {"cf_list", "scpc_list"} /\ lphase = "loop" /\ cmdOutcome' = "formatted")
            => /\ IsStableSort(collected', collected)
               /\ KeyIsRemaining(collected') ]_vars

\* a listing was sent in which two different blocks have the same remaining
\* seconds and a third one follows them
C10_Witness ==
    /\ cpu \in {"cf_list", "scpc_list"}
    /\ cmdOutcome = "formatted"
    /\ Len(collected) = 3
    /\ collected[1].key = collected[2].key
    /\ collected[1].text # collected[2].text
    /\ collected[2].key < collected[3].key

\* C11: the relative form.  relativeTimeSeconds < 0 gives Upcoming, remaining
\* -relativeTimeSeconds, label UntilStart; 0 <= relativeTimeSeconds <
\* durationSeconds gives Running, remaining durationSeconds -
\* relativeTimeSeconds, label UntilEnd.
CfReturned == call.fn = "_extract_cf_timing" /\ ret # Pending
RelOf(c) == c.contest.relativeTimeSeconds.v
DurOf(c) == c.contest.durationSeconds.v

C11_RelativeForm ==
    CfReturned =>
        /\ RelOf(call) < 0 =>
              /\ ret.tag = "timing"
              /\ ret.state = Upcoming
              /\ ret.remaining_secs = -RelOf(call)
              /\ ret.remaining_label = UntilStart
        /\ (0 <= RelOf(call) /\ RelOf(call) < DurOf(call)) =>
              /\ ret.tag = "timing"
              /\ ret.state = Running
              /\ ret.remaining_secs = DurOf(call) - RelOf(call)
              /\ ret.remaining_label = UntilEnd

\* a contest at the very instant of its start was classified Running with
\* its whole duration remaining
C11_Witness ==
    /\ CfReturned
    /\ RelOf(call) = 0
    /\ ret.tag = "timing"
    /\ ret.state = Running
    /\ ret.remaining_secs = DurOf(call)

\* C12: for all integer inputs with relativeTimeSeconds >= durationSeconds
\* the Codeforces classifier returns no classified contest.
C12_RelativeExcluded ==
    (CfReturned /\ RelOf(call) >= DurOf(call)) => ret.tag = "none"

\* C13: an SCPC record with nonzero start, end_epoch = start + duration, and
\* start <= now < end_epoch is Running with remaining end_epoch - now and
\* label UntilEnd, also when it carries a duration and no endTime.
Epoch(f) == IF f.k = "int" THEN f.v ELSE 0
ScpcReturned == call.fn = "_extract_scpc_timing" /\ ret # Pending
DurationSeconds(r) ==
    IF r.duration.k = "int" /\ r.duration.v # 0 THEN r.duration.v
    ELSE IF Epoch(r.endTime) - Epoch(r.startTime) >= 0
    THEN Epoch(r.endTime) - Epoch(r.startTime)
    ELSE 0
EndEpoch(r) == Epoch(r.startTime) + DurationSeconds(r)

C13_AbsoluteRunning ==
    (/\ ScpcReturned
     /\ call.record.duration.k # "bad"
     /\ Epoch(call.record.startTime) # 0
     /\ Epoch(call.record.startTime) <= call.now
     /\ call.now < EndEpoch(call.record)) =>
        /\ ret.tag = "timing"
        /\ ret.state = Running
        /\ ret.remaining_secs = EndEpoch(call.record) - call.now
        /\ ret.remaining_label = UntilEnd

\* C14: a record without a duration field never raises; a timing it yields
\* has duration max(end_epoch - start_epoch, 0); with a future startTime and
\* no endTime it is Upcoming with duration 0 and remaining start - now.
C14_MissingDuration ==
    (ScpcReturned /\ call.record.duration.k = "missing") =>
        /\ ret.tag # "raise"
        /\ ret.tag = "timing" =>
              ret.duration = (IF Epoch(call.record.endTime) >= Epoch(call.record.startTime)
                              THEN Epoch(call.record.endTime) - Epoch(call.record.startTime)
                              ELSE 0)
        /\ (Epoch(call.record.startTime) > call.now /\ call.record.endTime.k = "missing") =>
              /\ ret.tag = "timing"
              /\ ret.state = Upcoming
              /\ ret.duration = 0
              /\ ret.remaining_secs = Epoch(call.record.startTime) - call.now

\* a record with a future startTime and neither endTime nor duration came
\* out Upcoming with duration 0
C14_Witness ==
    /\ ScpcReturned
    /\ call.record.duration.k = "missing"
    /\ call.record.endTime.k = "missing"
    /\ ret.tag = "timing"
    /\ ret.state = Upcoming
    /\ ret.duration = 0
    /\ ret.remaining_secs > 0

\* C15: for start_epoch > 0, duration >= 0 and every now, the absolute form
\* (start, end = start + duration, now) and the relative form (now - start,
\* duration) are both excluded, or have the same state, label, remaining
\* seconds, duration and start, and so the same text block.
BlockOf(t) ==
    format_contest_text("S", 0, t.state, t.start_ts, t.remaining_label,
                        t.remaining_secs, t.duration, FALSE)

C15_FormsAgree ==
    (call.fn = "both_forms" /\ ret # Pending) =>
        /\ ret.abs.tag \in {"timing", "none"}
        /\ ret.abs.tag = ret.rel.tag
        /\ ret.abs.tag = "timing" =>
              /\ ret.abs.state = ret.rel.state
              /\ ret.abs.remaining_label = ret.rel.remaining_label
              /\ ret.abs.remaining_secs = ret.rel.remaining_secs
              /\ ret.abs.duration = ret.rel.duration
              /\ ret.abs.start_ts = ret.rel.start_ts
              /\ BlockOf(ret.abs) = BlockOf(ret.rel)

\* both forms classified a contest Upcoming whose record has no explicit
\* duration
C15_Witness ==
    /\ call.fn = "both_forms"
    /\ ret # Pending
    /\ ~call.explicit
    /\ ret.abs.tag = "timing"
    /\ ret.rel.tag = "timing"
    /\ ret.rel.state = Upcoming
    /\ ret.rel.duration > 0

\* C16: the registry changes only in the step of an enable or disable
\* command whose sender's looked-up role is owner or admin; a command of a
\* member or unknown sender, or one for which no role lookup was made,
\* leaves it unchanged.
C16_AdminGated ==
    [][ group_listeners' # group_listeners
          => /\ cpu = "idle"
             /\ cpu' = "toggle"
             /\ role' \in {"owner", "admin"} ]_vars

\* C17: when the role lookup of an enable or disable command raises, the
\* command body does not run: the registry and _cf_alerted_ids stay as they
\* are and the one reply issued is the apology.
C17_FailClosed ==
    [][ /\ (cpu = "idle" /\ cpu' = "toggle" /\ role' = "lookup_raises")
            => /\ group_listeners' = group_listeners
               /\ _cf_alerted_ids' = _cf_alerted_ids
               /\ cmdOutcome' # "replied"
               /\ replies' = <<"lookup_failed">>
        /\ (cpu = "toggle" /\ role = "lookup_raises")
            => /\ group_listeners' = group_listeners
               /\ _cf_alerted_ids' = _cf_alerted_ids
               /\ cpu' = "idle" ]_vars

\* a command was refused with the apology while the registry had an enabled
\* group and the set held an id
C17_Witness ==
    /\ cpu = "toggle"
    /\ role = "lookup_raises"
    /\ replies = <<"lookup_failed">>
    /\ AnyEnabled
    /\ _cf_alerted_ids # {}

\* C18: an admin's enable(g) leaves the flag of g true and disable(g) false;
\* on a registry where g already has that flag the command changes nothing
\* (a second application equals one); no other key's entry and no id of
\* _cf_alerted_ids changes.
C18_IdempotentLocal ==
    [][ (cpu = "idle" /\ cpu' = "toggle" /\ role' \in {"owner", "admin"})
          => LET g == event'.group_id
                 val == replies' = <<"listener_enabled">>
             IN /\ replies' \in {<<"listener_enabled">>, <<"listener_disabled">>}
                /\ HasKey(group_listeners', g)
                /\ Enabled(group_listeners', g) = val
                /\ (HasKey(group_listeners, g) /\ Enabled(group_listeners, g) = val)
                      => group_listeners' = group_listeners
                /\ \A h \in (Groups \cup {NoneId}) \ {g} :
                      /\ HasKey(group_listeners', h) = HasKey(group_listeners, h)
                      /\ Enabled(group_listeners', h) = Enabled(group_listeners, h)
                /\ _cf_alerted_ids' = _cf_alerted_ids ]_vars

\* an admin disabled a group while another group was enabled and the set
\* held an id
C18_Witness ==
    /\ cpu = "toggle"
    /\ role \in {"owner", "admin"}
    /\ replies = <<"listener_disabled">>
    /\ HasKey(group_listeners, event.group_id)
    /\ ~Enabled(group_listeners, event.group_id)
    /\ AnyEnabled
    /\ _cf_alerted_ids # {}

\* C19: every user command that has ended has issued a reply, whatever the
\* fetch returned.
C19_AlwaysReplies ==
    (cpu \in {"toggle", "cf_list", "scpc_list", "rating"} /\ lphase = "ended")
        => replies # <<>>

LabelReturned == call.fn = "format_relative_hours" /\ ret # Pending

\* n is the least whole number of units of `unit` seconds covering `seconds`
IsCeiling(n, seconds, unit) == n * unit >= seconds /\ (n - 1) * unit < seconds

\* C21: for integer seconds >= 7*24*3600 the remaining-time phrase is
\* ceil(seconds / 604800) weeks, for 24*3600 <= seconds < 7*24*3600 it is
\* ceil(seconds / 86400) days, and below 24*3600 it is hours; the week and
\* day counts are rounded up: 6 days 23 hours gives 7 days, 90000 s gives
\* 2 days, 700000 s gives 2 weeks.
C21_RelativeBuckets ==
    LabelReturned =>
        LET s == call.seconds
            l == ret.label
        IN /\ s >= 604800 => l.unit = "weeks" /\ IsCeiling(l.n, s, 604800)
           /\ (86400 <= s /\ s < 604800) => l.unit = "days" /\ IsCeiling(l.n, s, 86400)
           /\ s < 86400 => l.unit = "hours"
           /\ s = 6 * 86400 + 23 * 3600 => l = [n |-> 7, unit |-> "days"]
           /\ s = 90000 => l = [n |-> 2, unit |-> "days"]
           /\ s = 700000 => l = [n |-> 2, unit |-> "weeks"]

\* 6 days 23 hours were rendered as 7 days
C21_Witness ==
    /\ LabelReturned
    /\ call.seconds = 6 * 86400 + 23 * 3600
    /\ ret.label = [n |-> 7, unit |-> "days"]

\* ---------------------------------------------------------------- C22
ParseReturned == call.fn = "parse_scpc_time" /\ ret # Pending

\* n is the float `halves / 2` with its fraction dropped
IsTruncation(n, halves) ==
    IF halves >= 0 THEN 2 * n <= halves /\ halves < 2 * n + 2
    ELSE 2 * n >= halves /\ halves > 2 * n - 2

\* C22: parse_scpc_time returns an integer for every input and never raises:
\* null gives 0, an integer gives itself, a float gives its value truncated
\* to an integer, and every input that cannot be converted (a string that is
\* no date, a NaN or infinite float, a list or an object) gives 0.
C22_ParseTotal ==
    ParseReturned =>
        LET v == call.value
            n == ret.value
        IN /\ ret.tag = "parsed"
           /\ n \in Int
           /\ v.k = "missing" => n = 0
           /\ v.k = "int" => n = v.v
           /\ v.k = "float" => IsTruncation(n, v.v)
           /\ v.k \in {"bad", "other", "nonfinite"} => n = 0

\* the float -1.5 was parsed to -1
C22_Witness ==
    /\ ParseReturned
    /\ call.value = FloatV(-3)
    /\ ret.value = -1

\* ---------------------------------------------------------------- C23
\* C23: every timing either adapter produces has duration_seconds >= 0, for
\* every upstream record, also one whose durationSeconds or duration field
\* is negative.
C23_NonNegativeDuration ==
    ((CfReturned \/ ScpcReturned) /\ ret.tag = "timing") => ret.duration >= 0

\* ---------------------------------------------------------------- C24
\* C24: when a tick ends, normally or by an error, every id it added to
\* _cf_alerted_ids is contained in the merged message it passed to
\* _broadcast_text.
C24_MarkedIsAnnounced ==
    \A t \in TickIds : ticks[t].pc \in Ended => ticks[t].marked \subseteq MsgIds(t)

\* ---------------------------------------------------------------- C25
Listing == cpu \in {"cf_list", "scpc_list"}

\* the state the watcher decides on
WatcherState == <<group_listeners, _cf_alerted_ids, nticks, ticks, announced, unsent>>

\* C25: the two listing commands neither read nor modify _cf_alerted_ids:
\* every step of a listing leaves the set, the registry and the ticks as
\* they are, so a later tick alerts what it would have alerted without the
\* listing, and a Codeforces contest that has a timing is put into the
\* listing also when its id is already in the set.
C25_ListBypassesDedup ==
    [][/\ (Listing \/ Listing') => WatcherState' = WatcherState
       /\ (cpu = "cf_list" /\ lphase = "loop" /\ contests # <<>>
             /\ _extract_cf_timing(Head(contests)).tag = "timing")
          => /\ Len(collected') = Len(collected) + 1
             /\ IdOf(collected'[Len(collected')].text) = Head(contests).id]_vars

\* a listing shows a contest whose id a tick has put into the set
C25_Witness ==
    /\ cpu = "cf_list"
    /\ lphase = "ended"
    /\ \E i \in 1..Len(collected) : IdOf(collected[i].text) \in _cf_alerted_ids

\* ---------------------------------------------------------------- C26
\* C26: when enable or disable commands, also an enable for a group with no
\* entry yet, have run while a broadcast awaited a send, the tick still
\* completes its iteration over the registry without raising: it is never
\* ended by an exception, and once it is over it has passed every entry the
\* iteration started with.
C26_InterleavedToggleSafe ==
    \A t \in TickIds :
        ticks[t].regChanged =>
            /\ ticks[t].error = "none"
            /\ ticks[t].pc \in Ended => ticks[t].pos = ticks[t].size

\* ---------------------------------------------------------------- C27
\* C27: from the fetch to the end of the loop (the membership test and the
\* insertion of each id) a tick is never suspended, so with overlapping
\* ticks (one starting while another is suspended in a send) and commands
\* in between, no contest id is in the messages of two different ticks.
C27_CheckAndMarkAtomic ==
    /\ \A t \in TickIds : ticks[t].pc = "loop" => (cpu = "tick" /\ cur = t)
    /\ \A t1, t2 \in TickIds : t1 # t2 => MsgIds(t1) \cap MsgIds(t2) = {}
    /\ \A id \in ContestIds : announced[id] \in {0, 1}

\* while one tick was suspended in the send of its message, a second tick
\* ran its loop and skipped an id of that message
C27_Witness ==
    \E t1, t2 \in TickIds :
        /\ t1 # t2
        /\ ticks[t1].pc = "awaiting"
        /\ ticks[t2].pc \in {"loop", "iter", "awaiting", "done"}
        /\ ticks[t2].dup \cap MsgIds(t1) # {}

\* ---------------------------------------------------------------- C28
\* the ids that were in the set before tick t added its own
AlertedBefore(t) == _cf_alerted_ids \ ticks[t].marked

\* C28: once a tick has added a contest id to _cf_alerted_ids, no later tick
\* sends an alert for that contest to any group, so a group enabled only
\* afterwards never receives one, also while the contest is still Upcoming
\* within the threshold: contest 42, alerted before any other group was
\* enabled, is in no message a later tick sends.
C28_PerContestNotPerGroup ==
    \A t \in TickIds :
        \A g \in Groups :
            Count(ticks[t].sent, g) > 0 =>
                /\ MsgIds(t) \cap AlertedBefore(t) = {}
                /\ 42 \notin MsgIds(t)

\* a later tick met contest 42, still upcoming within the threshold, skipped
\* it, and sent its message to group 2, enabled after 42 was alerted
C28_Witness ==
    \E t \in TickIds :
        /\ ticks[t].pc = "done"
        /\ 42 \in ticks[t].dup
        /\ Count(ticks[t].sent, 2) = 1
        /\ 42 \notin MsgIds(t)

\* ---------------------------------------------------------------- C29
\* tick t, run before contest 42 starts, has issued a send of a message that
\* contains contest 42
AlertedWhileUpcoming(t) ==
    /\ 42 \in MsgIds(t)
    /\ ticks[t].sent # <<>>
    /\ TickTime(t) < call.start

====
